---- MODULE Spec2Model ----
(***************************************************************************)
(* A model of the Medium article scraper (src/scraper.py) and of the       *)
(* search API built on its snapshot (src/api.py).                          *)
(*                                                                         *)
(*   Spec         the crawl driver scrape_urls_to_csv, with the fetcher    *)
(*                and the extractor it calls                               *)
(*   FetchSpec    fetch_url called on its own, for any max_retries         *)
(*   FetchFairSpec  FetchSpec with the fairness of a running thread        *)
(*   ExtractSpec  extract_medium_data's extraction applied to a page       *)
(*   ApiSpec      load_data_and_prepare_model, search_articles, health     *)
(***************************************************************************)
EXTENDS Integers, Sequences, FiniteSets, TLC

VARIABLES
    \* ---- scraper.py: scrape_urls_to_csv
    urlsFile,      \* the URL file: [exists, lines]
    snapshot,      \* scrapping_results.csv: [exists, rows]
    writes,        \* number of DataFrame.to_csv calls made by this crawl
    pc,            \* position of the crawl driver
    urls,          \* the list read from the URL file
    idx,           \* 1-based position in urls of the URL being scraped
    results,       \* the results list
    \* ---- scraper.py: fetch_url
    fpc,           \* position inside fetch_url
    max_retries,   \* its parameter
    attempt,       \* the loop variable of `for attempt in range(max_retries)`
    statuses,      \* outcome of every requests.get of this call, in order
    delays,        \* every time.sleep of this call, in order
    fetchRet,      \* what the call returned
    lastGet,       \* [url, prevUrl, gap]: the latest GET, the URL of the GET
                   \* before it, and the time slept between the two
    sinceGet,      \* time slept since the latest GET
    \* ---- scraper.py: extract_medium_data
    page,          \* the parsed page being extracted
    pageUrl,       \* the url argument
    extractOut,    \* the outcome: an Article or an exception
    \* ---- api.py
    dataFile,      \* scrapping_results.csv as the API finds it at start-up
    apc,           \* position of the API process
    df,            \* the global df: [loaded, claps]
    indexUses,     \* 0 until a search has used tfidf_vectorizer / tfidf_matrix, then 1
    request,       \* the query being answered: [top_n, sims]
    response       \* the latest response of an endpoint

crawlVars   == <<urlsFile, snapshot, writes, pc, urls, idx, results>>
fetchVars   == <<fpc, max_retries, attempt, statuses, delays, fetchRet,
                 lastGet, sinceGet>>
extractVars == <<page, pageUrl, extractOut>>
apiVars     == <<dataFile, apc, df, indexUses, request, response>>
vars        == <<crawlVars, fetchVars, extractVars, apiVars>>

(***************************************************************************)
(* Bounds of the model.                                                    *)
(***************************************************************************)
MaxLines == 3        \* lines of the URL file
MaxRetriesArg == 5   \* largest max_retries given to fetch_url on its own
MaxRows == 3         \* rows of the snapshot the API loads

(***************************************************************************)
(* Program constants.                                                      *)
(***************************************************************************)
DefaultMaxRetries == 3   \* def fetch_url(url, max_retries=3)
BackoffUnit == 5         \* delay = 5 * (attempt + 1)
PoliteDelay == 10        \* time.sleep(10)
BodyTextCap == 500       \* [:500]
TopNMin == 1             \* Query(10, ge=1, le=100)
TopNMax == 100
SimWeight == 7           \* 0.7 * cosine_similarities, in tenths
ClapsWeight == 3         \* 0.3 * normalized_claps, in tenths

(***************************************************************************)
(* Python values, tagged by type.  A dict is [t |-> "dict", f |-> record]; *)
(* a key the dict lacks is a field the record lacks.                       *)
(***************************************************************************)
PyNone == [t |-> "none"]
Absent == [t |-> "absent"]     \* marks a key to be left out of a dict
PyStr(s) == [t |-> "str", v |-> s]
PyInt(n) == [t |-> "int", v |-> n]
PyNum(n) == [t |-> "num", tenths |-> n]    \* a JSON number, in tenths
PyList(q) == [t |-> "list", v |-> q]
PyDict(r) == [t |-> "dict",
            f |-> [k \in {x \in DOMAIN r : r[x].t # "absent"} |-> r[k]]]
EmptyDict == [t |-> "dict", f |-> <<>>]

\* bool(x)
Truthy(x) ==
    CASE x.t = "none" -> FALSE
      [] x.t = "str"  -> x.v # ""
      [] x.t = "int"  -> x.v # 0
      [] x.t = "num"  -> x.tenths # 0
      [] x.t = "list" -> x.v # <<>>
      [] x.t = "dict" -> DOMAIN x.f # {}
      [] OTHER        -> TRUE

\* a == b
PyEq(a, b) ==
    IF a.t # b.t THEN FALSE
    ELSE CASE a.t \in {"str", "int"} -> a.v = b.v
           [] a.t = "num"            -> a.tenths = b.tenths
           [] OTHER                  -> a = b

\* d.get(k, default) of a dict d
DictGet(d, k, default) == IF k \in DOMAIN d.f THEN d.f[k] ELSE default

\* a or b
PyOr(a, b) == IF Truthy(a) THEN a ELSE b

\* f"{x}" of a str or None
PyFormat(x) == IF x.t = "str" THEN x.v ELSE "None"

\* int(x): truncation toward zero of a number; a str that is no integer
\* literal raises ValueError (the model's strings are none)
TruncTenths(n) == IF n >= 0 THEN n \div 10 ELSE -((-n) \div 10)

\* sep.join(q) of a sequence of strs
RECURSIVE Join(_, _)
Join(sep, q) ==
    IF q = <<>> THEN ""
    ELSE IF Len(q) = 1 THEN q[1]
    ELSE q[1] \o sep \o Join(sep, Tail(q))

\* article_data[k] = v, and article_data.get(k, default)
Put(ad, k, v) == [x \in DOMAIN ad \cup {k} |-> IF x = k THEN v ELSE ad[x]]
Get(ad, k, default) == IF k \in DOMAIN ad THEN ad[k] ELSE default

(***************************************************************************)
(* extract_medium_data, after the fetch: the structured layer.             *)
(* A page is the parsed document:                                          *)
(*   script   the element script#__NEXT_DATA__: [kind |-> "absent"], or    *)
(*            [kind |-> "tag", parse |-> "nostring" | "invalid" | "ok",    *)
(*             json |-> the value json.loads gives]                        *)
(*   h1, h2, main, article, body   the stripped text of the first such     *)
(*            element, PyNone when the page has none                       *)
(*   imgs     the src attribute of every img element (PyNone: no src)      *)
(*   anchors  the href attribute of every a element (PyNone: no href)      *)
(***************************************************************************)
Raise(ad) == [ok |-> FALSE, ad |-> ad]
Done(ad) == [ok |-> TRUE, ad |-> ad]

\* post_data.get('virtuals', {})
Virtuals(post) == DictGet(post, "virtuals", EmptyDict)

\* article_data[key] = post_data.get('virtuals', {}).get(field)
PutVirtual(ad, post, key, field) ==
    IF Virtuals(post).t # "dict" THEN Raise(ad)
    ELSE Done(Put(ad, key, DictGet(Virtuals(post), field, PyNone)))

\* [tag['name'] for tag in post_data.get('virtuals', {}).get('tags', [])];
\* tags is a list, or None (which cannot be iterated)
PutKeywords(ad, post) ==
    IF Virtuals(post).t # "dict" THEN Raise(ad)
    ELSE LET tags == DictGet(Virtuals(post), "tags", PyList(<<>>)) IN
         IF tags.t # "list" THEN Raise(ad)
         ELSE IF \E k \in 1..Len(tags.v) :
                    \/ tags.v[k].t # "dict"
                    \/ "name" \notin DOMAIN tags.v[k].f
              THEN Raise(ad)
         ELSE Done(Put(ad, "Keywords",
                       PyList([k \in 1..Len(tags.v) |-> tags.v[k].f.name])))

AuthorUrl(who) ==
    PyStr("https://medium.com/@" \o PyFormat(DictGet(who, "username", PyNone)))

\* the author: the page's user when its userId is the post's creatorId,
\* else the post's creator
PutAuthor(ad, post, page_props) ==
    LET creator_id == DictGet(post, "creatorId", PyNone)
        pageData == DictGet(page_props, "pageData", EmptyDict)
    IN
    IF pageData.t # "dict" THEN Raise(ad)
    ELSE
    LET user == DictGet(pageData, "user", PyNone) IN
    IF Truthy(user) /\ user.t # "dict" THEN Raise(ad)
    ELSE IF Truthy(user) /\ PyEq(DictGet(user, "userId", PyNone), creator_id)
    THEN Done(Put(Put(ad, "Author Name", DictGet(user, "name", PyNone)),
                  "Author URL", AuthorUrl(user)))
    ELSE LET author == DictGet(post, "creator", PyNone) IN
         IF ~Truthy(author) THEN Done(ad)
         ELSE IF author.t # "dict" THEN Raise(ad)
         ELSE Done(Put(Put(ad, "Author Name", DictGet(author, "name", PyNone)),
                       "Author URL", AuthorUrl(author)))

\* " ".join([p.get('text', '') for p in text_paragraphs])
PutText(ad, post) ==
    LET content == DictGet(post, "content", EmptyDict) IN
    IF content.t # "dict" THEN Raise(ad)
    ELSE
    LET bodyModel == DictGet(content, "bodyModel", EmptyDict) IN
    IF bodyModel.t # "dict" THEN Raise(ad)
    ELSE
    LET paragraphs == DictGet(bodyModel, "paragraphs", PyList(<<>>)) IN
    IF paragraphs.t # "list" THEN Raise(ad)
    ELSE IF \E k \in 1..Len(paragraphs.v) : paragraphs.v[k].t # "dict"
    THEN Raise(ad)
    ELSE
    LET texts == [k \in 1..Len(paragraphs.v) |->
                     DictGet(paragraphs.v[k], "text", PyStr(""))]
    IN
    IF \E k \in 1..Len(texts) : texts[k].t # "str" THEN Raise(ad)
    ELSE Done(Put(ad, "Text",
                  PyStr(Join(" ", [k \in 1..Len(texts) |-> texts[k].v]))))

\* the statements of `if post_data:`, in order
PostStatements ==
    <<"Title", "Subtitle", "Claps", "Reading Time", "Keywords", "Author", "Text">>

PostStatement(name, ad, post, page_props) ==
    CASE name = "Title" -> Done(Put(ad, "Title", DictGet(post, "title", PyNone)))
      [] name = "Subtitle" -> PutVirtual(ad, post, "Subtitle", "subtitle")
      [] name = "Claps" -> PutVirtual(ad, post, "Claps", "totalClapCount")
      [] name = "Reading Time" -> PutVirtual(ad, post, "Reading Time", "readingTime")
      [] name = "Keywords" -> PutKeywords(ad, post)
      [] name = "Author" -> PutAuthor(ad, post, page_props)
      [] name = "Text" -> PutText(ad, post)

\* runs the statements from the n-th on; an exception leaves the try block
\* with what was assigned so far
RECURSIVE RunPost(_, _, _, _)
RunPost(n, ad, post, page_props) ==
    IF n > Len(PostStatements) THEN ad
    ELSE LET r == PostStatement(PostStatements[n], ad, post, page_props) IN
         IF r.ok THEN RunPost(n + 1, r.ad, post, page_props) ELSE r.ad

\* page_props.get('pageData', {}).get('post') or page_props.get('post')
PostData(page_props) ==
    PyOr(DictGet(DictGet(page_props, "pageData", EmptyDict), "post", PyNone),
         DictGet(page_props, "post", PyNone))

\* the article_data the try block leaves, starting from {'URL': url}
StructuredLayer(pg, url) ==
    LET ad0 == Put(<<>>, "URL", PyStr(url))
        s == pg.script
    IN
    IF s.kind = "absent" THEN ad0
    ELSE IF s.parse # "ok" THEN ad0
    ELSE IF s.json.t # "dict" THEN ad0
    ELSE
    LET props == DictGet(s.json, "props", EmptyDict) IN
    IF props.t # "dict" THEN ad0
    ELSE
    LET page_props == DictGet(props, "pageProps", EmptyDict) IN
    IF page_props.t # "dict" THEN ad0
    ELSE IF DictGet(page_props, "pageData", EmptyDict).t # "dict" THEN ad0
    ELSE
    LET post_data == PostData(page_props) IN
    IF ~Truthy(post_data) THEN ad0
    ELSE IF post_data.t # "dict" THEN ad0
    ELSE RunPost(1, ad0, post_data, page_props)

(***************************************************************************)
(* The HTML layer (the fallbacks), the media and link analysis, and the    *)
(* final assembly.                                                         *)
(***************************************************************************)
LongBodyText ==
    "The quick brown fox jumps over the lazy dog and keeps running past the end of the page. The quick brown fox jumps over the lazy dog and keeps running past the end of the page. The quick brown fox jumps over the lazy dog and keeps running past the end of the page. The quick brown fox jumps over the lazy dog and keeps running past the end of the page. The quick brown fox jumps over the lazy dog and keeps running past the end of the page. The quick brown fox jumps over the lazy dog and keeps running past the end of th"
LongBodyTextPrefix ==
    "The quick brown fox jumps over the lazy dog and keeps running past the end of the page. The quick brown fox jumps over the lazy dog and keeps running past the end of the page. The quick brown fox jumps over the lazy dog and keeps running past the end of the page. The quick brown fox jumps over the lazy dog and keeps running past the end of the page. The quick brown fox jumps over the lazy dog and keeps running past the end of the page. The quick brown fox jumps over the lazy dog and keeps runnin"

\* s[:500], for the body texts of the model
Slice500(s) ==
    IF Len(s) <= BodyTextCap THEN s
    ELSE IF s = LongBodyText THEN LongBodyTextPrefix
    ELSE s

\* soup.find('div', role='main') or soup.find('article')
MainContent(pg) == IF pg.main.t # "none" THEN pg.main ELSE pg.article

\* lines 95-111; soup.body is None on a page without a body element, and
\* None.get_text raises AttributeError
HtmlLayer(ad, pg) ==
    LET ad1 == IF ~Truthy(Get(ad, "Title", PyNone))
               THEN Put(ad, "Title", IF pg.h1.t # "none" THEN pg.h1 ELSE PyStr("N/A"))
               ELSE ad
        ad2 == IF ~Truthy(Get(ad1, "Subtitle", PyNone))
               THEN Put(ad1, "Subtitle", IF pg.h2.t # "none" THEN pg.h2 ELSE PyStr("N/A"))
               ELSE ad1
    IN
    IF Truthy(Get(ad2, "Text", PyNone)) THEN Done(ad2)
    ELSE IF MainContent(pg).t # "none" THEN Done(Put(ad2, "Text", MainContent(pg)))
    ELSE IF pg.body.t = "none" THEN Raise(ad2)
    ELSE Done(Put(ad2, "Text", PyStr(Slice500(pg.body.v) \o "...")))

\* needle in src, for the image sources of the model
ImgCdn == "https://cdn-images-1.medium.com/max/800/1*a.png"
ImgMiro == "https://miro.medium.com/v2/resize:fit:700/1*b.png"
ImgMiroThumb == "https://miro.medium.com/v2/resize:fill:40:40/1*c.png?w=40"
ImgOther == "https://example.org/static/logo.png"
Contains(src, needle) ==
    CASE needle = "cdn-images-1.medium.com" -> src = ImgCdn
      [] needle = "miro.medium.com" -> src \in {ImgMiro, ImgMiroThumb}
      [] needle = "w=40" -> src = ImgMiroThumb
      [] OTHER -> FALSE

\* the condition of the comprehension of line 118
KeepImage(src) ==
    /\ Truthy(src)
    /\ (Contains(src.v, "cdn-images-1.medium.com") \/ Contains(src.v, "miro.medium.com"))
    /\ ~Contains(src.v, "w=40")

RECURSIVE ArticleImages(_)
ArticleImages(imgs) ==
    IF imgs = <<>> THEN <<>>
    ELSE IF KeepImage(Head(imgs)) THEN <<Head(imgs).v>> \o ArticleImages(Tail(imgs))
    ELSE ArticleImages(Tail(imgs))

\* urlparse(u).netloc, for the URLs of the model
UrlA == "https://medium.com/@ann/first-post-1a2b"
UrlB == "https://towardsdatascience.com/second-post-3c4d"
HrefSameHost == "https://medium.com/@ann/about"
HrefSubdomain == "https://blog.medium.com/news"
HrefPartner == "https://towardsdatascience.com/about"
HrefExternal == "https://example.org/paper.pdf"
HrefRelative == "/m/signin"
Netloc(u) ==
    CASE u \in {UrlA, HrefSameHost} -> "medium.com"
      [] u \in {UrlB, HrefPartner} -> "towardsdatascience.com"
      [] u = HrefSubdomain -> "blog.medium.com"
      [] u = HrefExternal -> "example.org"
      [] OTHER -> ""

\* host.endswith(suffix), for the hosts of the model
EndsWith(host, suffix) ==
    CASE suffix = ".medium.com" -> host = "blog.medium.com"
      [] suffix = "towardsdatascience.com" -> host = "towardsdatascience.com"
      [] OTHER -> FALSE

\* the condition of line 129
IsExternal(href, article_domain) ==
    LET link_domain == Netloc(href) IN
    /\ link_domain # ""
    /\ ~(\/ link_domain = article_domain
         \/ EndsWith(link_domain, ".medium.com")
         \/ EndsWith(link_domain, "towardsdatascience.com"))

\* lines 123-131; find_all('a', href=True) skips the anchors without href
ExternalLinks(anchors, url) ==
    Cardinality({k \in 1..Len(anchors) :
                    /\ anchors[k].t = "str"
                    /\ IsExternal(anchors[k].v, Netloc(url))})

MediaLayer(ad, pg, url) ==
    LET article_images == ArticleImages(pg.imgs) IN
    Put(Put(Put(ad, "No. of images", PyInt(Len(article_images))),
            "Image URLs", PyStr(Join(", ", article_images))),
        "No. of external links", PyInt(ExternalLinks(pg.anchors, url)))

\* int(s) of a str: the integer literals of the model; any other str raises
IntLiterals == {"4"}
IntOfLiteral(s) == IF s = "4" THEN 4 ELSE 0

\* f"{int(x)} min" if x else 'N/A'; ok is FALSE when int raises
ReadingTimeText(x) ==
    IF ~Truthy(x) THEN [ok |-> TRUE, v |-> PyStr("N/A")]
    ELSE CASE x.t = "num" ->
                [ok |-> TRUE, v |-> PyStr(ToString(TruncTenths(x.tenths)) \o " min")]
           [] x.t = "int" -> [ok |-> TRUE, v |-> PyStr(ToString(x.v) \o " min")]
           [] x.t = "str" /\ x.v \in IntLiterals ->
                [ok |-> TRUE, v |-> PyStr(ToString(IntOfLiteral(x.v)) \o " min")]
           [] OTHER -> [ok |-> FALSE, v |-> PyNone]

\* ", ".join(keywords); ok is FALSE when an item is no str (TypeError)
KeywordsText(kw) ==
    IF \E k \in 1..Len(kw.v) : kw.v[k].t # "str"
    THEN [ok |-> FALSE, v |-> PyNone]
    ELSE [ok |-> TRUE, v |-> PyStr(Join(", ", [k \in 1..Len(kw.v) |-> kw.v[k].v]))]

ArticleFields ==
    {"URL", "Title", "Subtitle", "Text", "No. of images", "Image URLs",
     "No. of external links", "Author Name", "Author URL", "Claps",
     "Reading Time", "Keywords"}

\* lines 135-150: the final_result dict, or the exception its construction raises
FinalAssembly(ad, url) ==
    LET rt == ReadingTimeText(Get(ad, "Reading Time", PyNone))
        kw == KeywordsText(Get(ad, "Keywords", PyList(<<>>)))
    IN
    IF ~rt.ok THEN [kind |-> "raise", exc |-> "ValueError"]
    ELSE IF ~kw.ok THEN [kind |-> "raise", exc |-> "TypeError"]
    ELSE [kind |-> "article",
          a |-> [k \in ArticleFields |->
                   CASE k = "URL" -> PyStr(url)
                     [] k = "Title" -> Get(ad, "Title", PyStr("N/A"))
                     [] k = "Subtitle" -> Get(ad, "Subtitle", PyStr("N/A"))
                     [] k = "Text" -> Get(ad, "Text", PyStr("N/A"))
                     [] k = "No. of images" -> Get(ad, "No. of images", PyInt(0))
                     [] k = "Image URLs" -> Get(ad, "Image URLs", PyStr("N/A"))
                     [] k = "No. of external links" ->
                            Get(ad, "No. of external links", PyInt(0))
                     [] k = "Author Name" -> Get(ad, "Author Name", PyStr("N/A"))
                     [] k = "Author URL" -> Get(ad, "Author URL", PyStr("N/A"))
                     [] k = "Claps" -> Get(ad, "Claps", PyInt(0))
                     [] k = "Reading Time" -> rt.v
                     [] k = "Keywords" -> kw.v]]

\* extract_medium_data(url) once fetch_url has returned the page pg
ExtractArticle(pg, url) ==
    LET html == HtmlLayer(StructuredLayer(pg, url), pg) IN
    IF ~html.ok THEN [kind |-> "raise", exc |-> "AttributeError"]
    ELSE FinalAssembly(MediaLayer(html.ad, pg, url), url)

(***************************************************************************)
(* The pages the extractor is applied to.                                  *)
(***************************************************************************)
TagsNamed == PyList(<<PyDict([name |-> PyStr("python")]), PyDict([name |-> PyStr("data")])>>)
TagsNoName == PyList(<<PyDict([slug |-> PyStr("python")])>>)
TagsNullName == PyList(<<PyDict([name |-> PyNone])>>)

VirtualsChoices ==
    {Absent, PyNone} \cup
    {PyDict([subtitle |-> s, totalClapCount |-> c, readingTime |-> r, tags |-> g]) :
        s \in {Absent, PyStr("Structured subtitle")},
        c \in {Absent, PyInt(120)},
        r \in {Absent, PyNum(32), PyStr("abc")},
        g \in {Absent, TagsNamed, TagsNoName, TagsNullName}}

UserAnn == PyDict([userId |-> PyStr("u1"), name |-> PyStr("Ann"), username |-> PyStr("ann")])
UserOther == PyDict([userId |-> PyStr("u2"), name |-> PyStr("Eve"), username |-> PyStr("eve")])
UserBare == PyDict([username |-> PyStr("ann")])
CreatorBob == PyDict([name |-> PyStr("Bob"), username |-> PyStr("bob")])
CreatorNoName == PyDict([username |-> PyStr("bob")])

\* (creatorId, creator) of the post and the user of the page
AuthorChoices ==
    {[creatorId |-> PyStr("u1"), creator |-> Absent, user |-> UserAnn],
     [creatorId |-> PyStr("u1"), creator |-> CreatorBob, user |-> UserOther],
     [creatorId |-> PyStr("u1"), creator |-> CreatorNoName, user |-> Absent],
     [creatorId |-> Absent, creator |-> Absent, user |-> UserBare],
     [creatorId |-> Absent, creator |-> Absent, user |-> Absent]}

ContentTwoParagraphs ==
    PyDict([bodyModel |-> PyDict([paragraphs |->
        PyList(<<PyDict([text |-> PyStr("First paragraph.")]),
                 PyDict([text |-> PyStr("Second paragraph.")])>>)])])

Post(title, virtuals, author, content) ==
    PyDict([title |-> title, virtuals |-> virtuals, creatorId |-> author.creatorId,
            creator |-> author.creator, content |-> content])

JsonScript(json) == [kind |-> "tag", parse |-> "ok", json |-> json]

\* the post at props.pageProps.pageData.post, the user beside it
PrimaryPayload(post, user) ==
    PyDict([props |-> PyDict([pageProps |->
        PyDict([pageData |-> PyDict([post |-> post, user |-> user])])])])

\* the post at props.pageProps.post
AlternatePayload(post) ==
    PyDict([props |-> PyDict([pageProps |-> PyDict([post |-> post])])])

Scripts ==
    {[kind |-> "absent"],
     [kind |-> "tag", parse |-> "nostring"],
     [kind |-> "tag", parse |-> "invalid"],
     JsonScript(PyList(<<>>)),
     JsonScript(EmptyDict),
     JsonScript(PyDict([props |-> PyNone]))}
    \cup
    {JsonScript(PrimaryPayload(Post(t, v, a, c), a.user)) :
        t \in {Absent, PyStr("Structured title")},
        v \in VirtualsChoices,
        a \in AuthorChoices,
        c \in {Absent, ContentTwoParagraphs}}
    \cup
    {JsonScript(AlternatePayload(Post(PyStr("Structured title"), v, a, ContentTwoParagraphs))) :
        v \in {Absent, PyDict([totalClapCount |-> PyInt(120), readingTime |-> PyStr("4")])},
        a \in {x \in AuthorChoices : x.user.t = "absent"}}

\* h1, h2 and the elements the text fallback looks for
HtmlChoices ==
    {[h1 |-> a, h2 |-> b, main |-> c.main, article |-> c.article, body |-> c.body] :
        a \in {PyNone, PyStr("Heading one")},
        b \in {PyNone, PyStr("Heading two")},
        c \in {[main |-> PyStr("Main text"), article |-> PyStr("Article text"),
                body |-> PyStr("Main text Article text")],
               [main |-> PyNone, article |-> PyStr("Article text"),
                body |-> PyStr("Article text")],
               [main |-> PyNone, article |-> PyNone, body |-> PyStr("Short body")],
               [main |-> PyNone, article |-> PyNone, body |-> PyStr(LongBodyText)],
               [main |-> PyNone, article |-> PyNone, body |-> PyNone]}}

MediaChoices ==
    {[imgs |-> <<>>, anchors |-> <<>>],
     [imgs |-> <<PyStr(ImgCdn), PyStr(ImgMiroThumb), PyNone, PyStr(ImgOther), PyStr(ImgMiro)>>,
      anchors |-> <<PyStr(HrefSameHost), PyStr(HrefExternal), PyNone, PyStr(HrefSubdomain),
                    PyStr(HrefPartner), PyStr(HrefRelative), PyStr(HrefExternal)>>]}

MakePage(s, h, m) ==
    [script |-> s, h1 |-> h.h1, h2 |-> h.h2, main |-> h.main, article |-> h.article,
     body |-> h.body, imgs |-> m.imgs, anchors |-> m.anchors]

Pages == {MakePage(s, h, m) : s \in Scripts, h \in HtmlChoices, m \in MediaChoices}

Urls == {UrlA, UrlB}

(***************************************************************************)
(* fetch_url.  A requests.get ends in one of these ways; the time it takes *)
(* is not counted, so sinceGet is a lower bound of the time between GETs.  *)
(***************************************************************************)
HttpErrors == {"404", "500"}                  \* HTTPError, status not 403
RequestErrors == {"timeout", "connection"}    \* other RequestException

\* three pages a server may answer with: one with the full structured
\* payload, one with headings and an article element only, one with neither
\* payload nor body
PageStructured ==
    MakePage(JsonScript(PrimaryPayload(
                 Post(PyStr("Structured title"),
                      PyDict([subtitle |-> PyStr("Structured subtitle"),
                              totalClapCount |-> PyInt(120),
                              readingTime |-> PyNum(32), tags |-> TagsNamed]),
                      [creatorId |-> PyStr("u1"), creator |-> Absent],
                      ContentTwoParagraphs),
                 UserAnn)),
             [h1 |-> PyStr("Heading one"), h2 |-> PyNone, main |-> PyNone,
              article |-> PyStr("Article text"), body |-> PyStr("Article text")],
             [imgs |-> <<PyStr(ImgMiro)>>, anchors |-> <<PyStr(HrefExternal)>>])
PageHtmlOnly ==
    MakePage([kind |-> "absent"],
             [h1 |-> PyStr("Heading one"), h2 |-> PyStr("Heading two"), main |-> PyNone,
              article |-> PyStr("Article text"), body |-> PyStr("Article text")],
             [imgs |-> <<>>, anchors |-> <<>>])
PageNoBody ==
    MakePage([kind |-> "absent"],
             [h1 |-> PyStr("Heading one"), h2 |-> PyNone, main |-> PyNone,
              article |-> PyNone, body |-> PyNone],
             [imgs |-> <<>>, anchors |-> <<>>])
CrawlPages == {PageStructured, PageHtmlOnly, PageNoBody}
NoPage == [script |-> [kind |-> "absent"]]

\* a delay counted from the loop variable, which starts at 0
BackoffDelayFromZero(a) == BackoffUnit * a

\* delay = 5 * (attempt + 1)
BackoffDelay(a) == BackoffUnit * (a + 1)

\* requests.get(url, headers=headers, timeout=20) ending with status s
\* fetch_url touches nothing of its caller or of the API
FetchFrame == UNCHANGED <<crawlVars, pageUrl, extractOut, apiVars>>

\* a loop that makes one attempt too many
RequestsGetOneMore(s) ==
    /\ fpc = "attempt"
    /\ attempt <= max_retries
    /\ statuses' = Append(statuses, s)
    /\ lastGet' = [url |-> idx, prevUrl |-> lastGet.url, gap |-> sinceGet]
    /\ sinceGet' = 0

RequestsGet(s) ==
    /\ fpc = "attempt"
    /\ attempt < max_retries
    /\ statuses' = Append(statuses, s)
    /\ lastGet' = [url |-> idx, prevUrl |-> lastGet.url, gap |-> sinceGet]
    /\ sinceGet' = 0

\* lines 23-25: the response is returned
FetchGetOk ==
    /\ RequestsGet("200")
    /\ \E p \in CrawlPages : page' = p
    /\ fetchRet' = "response"
    /\ fpc' = "returned"
    /\ UNCHANGED <<max_retries, attempt, delays>>
    /\ FetchFrame

\* lines 26-28: HTTPError with status 403
FetchGet403 ==
    /\ RequestsGet("403")
    /\ fpc' = "backoff"
    /\ UNCHANGED <<max_retries, attempt, delays, fetchRet, page>>
    /\ FetchFrame

\* lines 28-30: time.sleep(delay), then the next iteration
FetchBackoff ==
    /\ fpc = "backoff"
    /\ delays' = Append(delays, BackoffDelay(attempt))
    /\ sinceGet' = sinceGet + BackoffDelay(attempt)
    /\ attempt' = attempt + 1
    /\ fpc' = "attempt"
    /\ UNCHANGED <<max_retries, statuses, fetchRet, lastGet, page>>
    /\ FetchFrame

\* lines 31-33: HTTPError with another status
FetchGetHttpError ==
    /\ \E s \in HttpErrors : RequestsGet(s)
    /\ fetchRet' = "None"
    /\ fpc' = "returned"
    /\ UNCHANGED <<max_retries, attempt, delays, page>>
    /\ FetchFrame

\* a handler that retries a timeout or network error as it does a 403
FetchGetRequestExceptionRetried ==
    /\ \E s \in RequestErrors : RequestsGet(s)
    /\ fpc' = "backoff"
    /\ UNCHANGED <<max_retries, attempt, delays, fetchRet, page>>
    /\ FetchFrame

\* lines 34-36: timeout or network error
FetchGetRequestException ==
    /\ \E s \in RequestErrors : RequestsGet(s)
    /\ fetchRet' = "None"
    /\ fpc' = "returned"
    /\ UNCHANGED <<max_retries, attempt, delays, page>>
    /\ FetchFrame

\* line 37: the loop is over
FetchExhausted ==
    /\ fpc = "attempt"
    /\ attempt >= max_retries
    /\ fetchRet' = "None"
    /\ fpc' = "returned"
    /\ UNCHANGED <<max_retries, attempt, statuses, delays, lastGet, sinceGet, page>>
    /\ FetchFrame

FetchIdle ==
    /\ fpc = "idle"
    /\ max_retries = DefaultMaxRetries
    /\ attempt = 0
    /\ statuses = <<>>
    /\ delays = <<>>
    /\ fetchRet = "pending"
    /\ lastGet = [url |-> 0, prevUrl |-> 0, gap |-> 0]
    /\ sinceGet = 0

ExtractIdle ==
    /\ page = NoPage
    /\ pageUrl = ""
    /\ extractOut = [kind |-> "pending"]

CrawlIdle ==
    /\ urlsFile = [exists |-> FALSE, lines |-> <<>>]
    /\ snapshot = [exists |-> FALSE, rows |-> <<>>]
    /\ writes = 0
    /\ pc = "direct"
    /\ urls = <<>>
    /\ idx = 0
    /\ results = <<>>

ApiIdle ==
    /\ dataFile = [exists |-> FALSE, claps |-> <<>>, vocabulary |-> FALSE]
    /\ apc = "off"
    /\ df = [loaded |-> FALSE, claps |-> <<>>]
    /\ indexUses = 0
    /\ request = [top_n |-> 0, sims |-> <<>>]
    /\ response = [kind |-> "none"]

\* fetch_url(url, max_retries) called on its own
FetchInit ==
    /\ CrawlIdle /\ ExtractIdle /\ ApiIdle
    /\ fpc = "attempt"
    /\ max_retries \in 0..MaxRetriesArg
    /\ attempt = 0
    /\ statuses = <<>>
    /\ delays = <<>>
    /\ fetchRet = "pending"
    /\ lastGet = [url |-> 0, prevUrl |-> 0, gap |-> 0]
    /\ sinceGet = 0

FetchNext ==
    \/ FetchGetOk
    \/ FetchGet403
    \/ FetchBackoff
    \/ FetchGetHttpError
    \/ FetchGetRequestException
    \/ FetchExhausted

FetchSpec == FetchInit /\ [][FetchNext]_vars

\* the calling thread runs until fetch_url returns: every requests.get ends
\* (timeout=20) and every time.sleep ends
FetchFairSpec == FetchSpec /\ WF_vars(FetchNext)

(***************************************************************************)
(* extract_medium_data applied to a fetched page, on its own.              *)
(***************************************************************************)
ExtractInit ==
    /\ CrawlIdle /\ FetchIdle /\ ApiIdle
    /\ page \in Pages
    /\ pageUrl \in Urls
    /\ extractOut = [kind |-> "pending"]

\* lines 47-150
ExtractStep ==
    /\ pc = "direct"
    /\ extractOut.kind = "pending"
    /\ pageUrl # ""
    /\ extractOut' = ExtractArticle(page, pageUrl)
    /\ UNCHANGED <<crawlVars, fetchVars, page, pageUrl, apiVars>>

ExtractNext == ExtractStep

ExtractSpec == ExtractInit /\ [][ExtractNext]_vars

(***************************************************************************)
(* scrape_urls_to_csv.                                                     *)
(***************************************************************************)
\* the lines a URL file is made of, and line.strip() of each
LineBlank == "  "
LineA == UrlA
LineB == " " \o UrlB \o " "
Lines == {LineBlank, LineA, LineB}
Strip(l) ==
    CASE l = LineBlank -> ""
      [] l = LineB -> UrlB
      [] OTHER -> l

\* [line.strip() for line in f if line.strip()]
RECURSIVE ReadUrls(_)
ReadUrls(lines) ==
    IF lines = <<>> THEN <<>>
    ELSE IF Strip(Head(lines)) # "" THEN <<Strip(Head(lines))>> \o ReadUrls(Tail(lines))
    ELSE ReadUrls(Tail(lines))

SeqsUpTo(S, n) == UNION {[1..k -> S] : k \in 0..n}

UrlFiles ==
    {[exists |-> FALSE, lines |-> <<>>]} \cup
    {[exists |-> TRUE, lines |-> q] : q \in SeqsUpTo(Lines, MaxLines)}

\* a snapshot left by an earlier crawl
OldSnapshot == [exists |-> TRUE, rows |-> <<[k \in ArticleFields |-> PyStr("old")]>>]

Init ==
    /\ FetchIdle /\ ExtractIdle /\ ApiIdle
    /\ urlsFile \in UrlFiles
    /\ snapshot \in {[exists |-> FALSE, rows |-> <<>>], OldSnapshot}
    /\ writes = 0
    /\ pc = "start"
    /\ urls = <<>>
    /\ idx = 0
    /\ results = <<>>

CrawlFrame == UNCHANGED <<fetchVars, extractVars, apiVars>>

\* lines 156-158
UrlsFileMissing ==
    /\ pc = "start"
    /\ ~urlsFile.exists
    /\ pc' = "done"
    /\ UNCHANGED <<urlsFile, snapshot, writes, urls, idx, results>>
    /\ CrawlFrame

\* lines 160-165
UrlsFileEmpty ==
    /\ pc = "start"
    /\ urlsFile.exists
    /\ ReadUrls(urlsFile.lines) = <<>>
    /\ pc' = "done"
    /\ UNCHANGED <<urlsFile, snapshot, writes, urls, idx, results>>
    /\ CrawlFrame

\* lines 160-168
CrawlBegin ==
    /\ pc = "start"
    /\ urlsFile.exists
    /\ ReadUrls(urlsFile.lines) # <<>>
    /\ urls' = ReadUrls(urlsFile.lines)
    /\ results' = <<>>
    /\ idx' = 1
    /\ pc' = "scrape"
    /\ UNCHANGED <<urlsFile, snapshot, writes>>
    /\ CrawlFrame

\* lines 170, 43: extract_medium_data(url) calls fetch_url(url)
ScrapeCall ==
    /\ pc = "scrape"
    /\ pc' = "fetching"
    /\ pageUrl' = urls[idx]
    /\ page' = NoPage
    /\ extractOut' = [kind |-> "pending"]
    /\ fpc' = "attempt"
    /\ max_retries' = DefaultMaxRetries
    /\ attempt' = 0
    /\ statuses' = <<>>
    /\ delays' = <<>>
    /\ fetchRet' = "pending"
    /\ UNCHANGED <<urlsFile, snapshot, writes, urls, idx, results, lastGet, sinceGet, apiVars>>

\* lines 44-45, 171-175: fetch_url returned None
ScrapeFailed ==
    /\ pc = "fetching"
    /\ fpc = "returned"
    /\ fetchRet = "None"
    /\ fpc' = "idle"
    /\ pc' = "polite"
    /\ UNCHANGED <<urlsFile, snapshot, writes, urls, idx, results>>
    /\ UNCHANGED <<max_retries, attempt, statuses, delays, fetchRet, lastGet, sinceGet>>
    /\ UNCHANGED <<extractVars, apiVars>>

\* lines 47-150, 171-173: the page is extracted and the Article appended;
\* an exception of the extraction leaves scrape_urls_to_csv, which has no
\* handler, and ends the process
ScrapeExtract ==
    /\ pc = "fetching"
    /\ fpc = "returned"
    /\ fetchRet = "response"
    /\ fpc' = "idle"
    /\ extractOut' = ExtractArticle(page, pageUrl)
    /\ IF extractOut'.kind = "article"
       THEN /\ results' = Append(results, extractOut'.a)
            /\ pc' = "polite"
       ELSE /\ results' = results
            /\ pc' = "crashed"
    /\ UNCHANGED <<urlsFile, snapshot, writes, urls, idx>>
    /\ UNCHANGED <<max_retries, attempt, statuses, delays, fetchRet, lastGet, sinceGet>>
    /\ UNCHANGED <<page, pageUrl, apiVars>>

\* line 178, then the next iteration of the loop or its end
PoliteSleep ==
    /\ pc = "polite"
    /\ sinceGet' = sinceGet + PoliteDelay
    /\ idx' = idx + 1
    /\ pc' = IF idx + 1 <= Len(urls) THEN "scrape" ELSE "finish"
    /\ UNCHANGED <<urlsFile, snapshot, writes, urls, results>>
    /\ UNCHANGED <<fpc, max_retries, attempt, statuses, delays, fetchRet, lastGet>>
    /\ UNCHANGED <<extractVars, apiVars>>

\* a write that does not look at results
WriteSnapshotAlways ==
    /\ pc = "finish"
    /\ snapshot' = [exists |-> TRUE, rows |-> results]
    /\ writes' = writes + 1
    /\ pc' = "done"
    /\ UNCHANGED <<urlsFile, urls, idx, results>>
    /\ CrawlFrame

\* lines 180-183: df.to_csv(output_filename, index=False)
WriteSnapshot ==
    /\ pc = "finish"
    /\ results # <<>>
    /\ snapshot' = [exists |-> TRUE, rows |-> results]
    /\ writes' = writes + 1
    /\ pc' = "done"
    /\ UNCHANGED <<urlsFile, urls, idx, results>>
    /\ CrawlFrame

\* lines 184-185
NothingScraped ==
    /\ pc = "finish"
    /\ results = <<>>
    /\ pc' = "done"
    /\ UNCHANGED <<urlsFile, snapshot, writes, urls, idx, results>>
    /\ CrawlFrame

Next ==
    \/ UrlsFileMissing
    \/ UrlsFileEmpty
    \/ CrawlBegin
    \/ ScrapeCall
    \/ FetchGetOk
    \/ FetchGet403
    \/ FetchBackoff
    \/ FetchGetHttpError
    \/ FetchGetRequestException
    \/ FetchExhausted
    \/ ScrapeFailed
    \/ ScrapeExtract
    \/ PoliteSleep
    \/ WriteSnapshot
    \/ NothingScraped

Spec == Init /\ [][Next]_vars

(***************************************************************************)
(* api.py.  The snapshot the API loads is [exists, claps, vocabulary]:     *)
(* claps is the Claps column as the CSV holds it, one cell per row, and    *)
(* vocabulary says whether the rows' search text holds a term that is no   *)
(* stop word (TfidfVectorizer.fit_transform raises ValueError otherwise).  *)
(* The TF-IDF library is not modelled: a query comes with the similarity   *)
(* linear_kernel gives each row, in halves: sims[i] / 2.                   *)
(***************************************************************************)
ClapCells == {"", "1.2K", "-5", "3.7"}

\* pd.to_numeric(cell, errors='coerce'), in tenths; nan is TRUE for NaN
ToNumeric(cell) ==
    CASE cell = "-5" -> [nan |-> FALSE, tenths |-> -50]
      [] cell = "3.7" -> [nan |-> FALSE, tenths |-> 37]
      [] cell = "7" -> [nan |-> FALSE, tenths |-> 70]
      [] OTHER -> [nan |-> TRUE, tenths |-> 0]

\* .fillna(0)
FillNa0(x) == IF x.nan THEN [nan |-> FALSE, tenths |-> 0] ELSE x

\* .astype(int) of a finite float
AsTypeInt(x) == TruncTenths(x.tenths)

\* line 41
CoerceClaps(cell) == AsTypeInt(FillNa0(ToNumeric(cell)))

DataFiles ==
    {[exists |-> FALSE, claps |-> <<>>, vocabulary |-> FALSE]} \cup
    {[exists |-> TRUE, claps |-> q, vocabulary |-> v] :
        q \in SeqsUpTo(ClapCells, MaxRows), v \in BOOLEAN}

ApiInit ==
    /\ CrawlIdle /\ FetchIdle /\ ExtractIdle
    /\ dataFile \in {d \in DataFiles : d.claps = <<>> => ~d.vocabulary}
    /\ apc = "startup"
    /\ df = [loaded |-> FALSE, claps |-> <<>>]
    /\ indexUses = 0
    /\ request = [top_n |-> 0, sims |-> <<>>]
    /\ response = [kind |-> "none"]

ApiFrame == UNCHANGED <<crawlVars, fetchVars, extractVars>>

\* lines 23-26: no data file; df stays None and the module goes on loading
LoadMissing ==
    /\ apc = "startup"
    /\ ~dataFile.exists
    /\ apc' = "serving"
    /\ UNCHANGED <<dataFile, df, indexUses, request, response>>
    /\ ApiFrame

\* lines 28-38: fit_transform raises on an empty vocabulary; the exception
\* leaves the module's import and no endpoint is ever served
LoadRaises ==
    /\ apc = "startup"
    /\ dataFile.exists
    /\ ~dataFile.vocabulary
    /\ apc' = "crashed"
    /\ UNCHANGED <<dataFile, df, indexUses, request, response>>
    /\ ApiFrame

\* lines 28-44
LoadOk ==
    /\ apc = "startup"
    /\ dataFile.exists
    /\ dataFile.vocabulary
    /\ df' = [loaded |-> TRUE,
              claps |-> [k \in 1..Len(dataFile.claps) |-> CoerceClaps(dataFile.claps[k])]]
    /\ apc' = "serving"
    /\ UNCHANGED <<dataFile, indexUses, request, response>>
    /\ ApiFrame

SeqMin(q) == CHOOSE x \in {q[k] : k \in 1..Len(q)} : \A k \in 1..Len(q) : x <= q[k]
SeqMax(q) == CHOOSE x \in {q[k] : k \in 1..Len(q)} : \A k \in 1..Len(q) : x >= q[k]

\* the similarities a query may have with a row, in halves
SimValues == {0, 1, 2}

\* max_claps - min_claps when positive, else 1
ClapRange(claps) ==
    IF SeqMax(claps) > SeqMin(claps) THEN SeqMax(claps) - SeqMin(claps) ELSE 1

\* lines 72-82: final_score of row k, 0.7 * similarity + 0.3 * normalized
\* claps, as the numerator of a fraction over ScoreDen(claps); normalized
\* claps is (claps - min) / (max - min), or 0.5 when max = min
ScoreDen(claps) == 40 * ClapRange(claps)
ScoreNum(claps, sims, k) ==
    IF SeqMax(claps) > SeqMin(claps)
    THEN 2 * SimWeight * sims[k] * ClapRange(claps)
         + 4 * ClapsWeight * (claps[k] - SeqMin(claps))
    ELSE 2 * SimWeight * sims[k] + 2 * ClapsWeight

\* round(x, 4) of x = num / den >= 0, in units of 0.0001 (no score of the
\* model lies halfway between two such units)
Round4(num, den) == (20000 * num + den) \div (2 * den)

\* line 82: the Series final_score
FinalScore(claps, sims) == [k \in 1..Len(claps) |-> ScoreNum(claps, sims, k)]

\* final_score.argsort(): the positions in ascending order of score; the
\* sort is numpy's quicksort, which may leave equal scores in any order
Argsorts(final_score) ==
    {p \in Permutations(1..Len(final_score)) :
        \A a \in 1..(Len(final_score) - 1) : final_score[p[a]] <= final_score[p[a + 1]]}

\* q[-n:] for n >= 1
LastN(q, n) == SubSeq(q, IF Len(q) > n THEN Len(q) - n + 1 ELSE 1, Len(q))

\* q[::-1]
Reversed(q) == [k \in 1..Len(q) |-> q[Len(q) + 1 - k]]

\* the first top_n of the ascending order
TopIndicesAscending(order, top_n) == SubSeq(order, 1, IF Len(order) > top_n THEN top_n ELSE Len(order))

\* line 85
TopIndices(order, top_n) == Reversed(LastN(order, top_n))

\* lines 88-95
FormatResults(claps, final_score, top) ==
    [k \in 1..Len(top) |->
        [row |-> top[k],
         Claps |-> claps[top[k]],
         score |-> final_score[top[k]],
         Relevance_Score |-> Round4(final_score[top[k]], ScoreDen(claps))]]

\* the top_n values queried: up to the size of the largest corpus, the
\* default, and the largest the endpoint admits
DefaultTopN == 10
TopNs == (TopNMin..MaxRows) \cup {DefaultTopN, TopNMax}

\* line 52: a query arrives, validated by the framework; tfidf's similarity
\* of the query with each loaded row comes with it
ReceiveSearch ==
    /\ apc = "serving"
    /\ \E n \in TopNs, s \in [1..Len(df.claps) -> SimValues] :
          request' = [top_n |-> n, sims |-> s]
    /\ apc' = "searching"
    /\ response' = [kind |-> "none"]
    /\ UNCHANGED <<dataFile, df, indexUses>>
    /\ ApiFrame

\* a handler without the check of df
SearchNotLoadedUnchecked ==
    /\ apc = "searching"
    /\ ~df.loaded
    /\ response' = [kind |-> "results", rows |-> <<>>]
    /\ indexUses' = 1
    /\ apc' = "responded"
    /\ UNCHANGED <<dataFile, df, request>>
    /\ ApiFrame

\* lines 61-62
SearchNotLoaded ==
    /\ apc = "searching"
    /\ ~df.loaded
    /\ response' = [kind |-> "error"]
    /\ apc' = "responded"
    /\ UNCHANGED <<dataFile, df, indexUses, request>>
    /\ ApiFrame

\* lines 64-97
SearchArticles ==
    /\ apc = "searching"
    /\ df.loaded
    /\ LET final_score == FinalScore(df.claps, request.sims) IN
       \E order \in Argsorts(final_score) :
          response' = [kind |-> "results",
                       rows |-> FormatResults(df.claps, final_score,
                                              TopIndices(order, request.top_n))]
    /\ indexUses' = 1
    /\ apc' = "responded"
    /\ UNCHANGED <<dataFile, df, request>>
    /\ ApiFrame

\* lines 99-102
HealthCheck ==
    /\ apc = "serving"
    /\ response' = [kind |-> "health", status |-> "ok", data_loaded |-> df.loaded,
                    article_count |-> IF df.loaded THEN Len(df.claps) ELSE 0]
    /\ apc' = "responded"
    /\ UNCHANGED <<dataFile, df, indexUses, request>>
    /\ ApiFrame

\* the response is sent and the process waits for the next request
SendResponse ==
    /\ apc = "responded"
    /\ apc' = "serving"
    /\ request' = [top_n |-> 0, sims |-> <<>>]
    /\ response' = [kind |-> "none"]
    /\ UNCHANGED <<dataFile, df, indexUses>>
    /\ ApiFrame

ApiNext ==
    \/ LoadMissing
    \/ LoadRaises
    \/ LoadOk
    \/ ReceiveSearch
    \/ SearchNotLoaded
    \/ SearchArticles
    \/ HealthCheck
    \/ SendResponse

ApiSpec == ApiInit /\ [][ApiNext]_vars

(***************************************************************************)
(* Properties of fetch_url.                                                *)
(***************************************************************************)
AllForbidden(q) == \A k \in 1..Len(q) : q[k] = "403"
Failures == HttpErrors \cup RequestErrors

\* C1: when the first j attempts (j < max_retries) answer 403 and attempt
\* j + 1 answers 200, fetch_url has returned the response and has slept
\* exactly j times, for 5, 10, ..., 5 * j, with no sleep after the success.
C1_BackoffThenSuccess ==
    (/\ statuses # <<>>
     /\ statuses[Len(statuses)] = "200"
     /\ AllForbidden(SubSeq(statuses, 1, Len(statuses) - 1)))
    => /\ fpc = "returned"
       /\ fetchRet = "response"
       /\ Len(statuses) <= max_retries
       /\ delays = [k \in 1..(Len(statuses) - 1) |-> 5 * k]

\* C1: the scenario 403, 403, 200 with max_retries = 3
C1_Witness ==
    /\ max_retries = 3
    /\ statuses = <<"403", "403", "200">>
    /\ delays = <<5, 10>>
    /\ fetchRet = "response"
    /\ fpc = "returned"

\* the state part of C2
C2_Exhaustion ==
    AllForbidden(statuses) =>
        /\ Len(statuses) <= max_retries
        /\ Len(delays) <= Len(statuses)
        /\ \A k \in 1..Len(delays) : delays[k] = 5 * k
        /\ fpc = "returned" =>
              /\ fetchRet = "None"
              /\ Len(statuses) = max_retries
              /\ Len(delays) = max_retries

\* C2: when every attempt answers 403, fetch_url makes max_retries attempts
\* and no more, sleeps 5 * k after attempt k, and then returns None; and
\* every call of fetch_url returns.
C2_ExhaustionTerminates == []C2_Exhaustion /\ <>(fpc = "returned")

\* C2: three 403s with max_retries = 3
C2_Witness ==
    /\ max_retries = 3
    /\ statuses = <<"403", "403", "403">>
    /\ delays = <<5, 10, 15>>
    /\ fetchRet = "None"
    /\ fpc = "returned"

\* C3: an attempt that ends in a timeout, a network error or an HTTP error
\* other than 403 is the last one: fetch_url has returned None, with no GET
\* and no sleep after that attempt, whatever number of 403s came before.
C3_FailFast ==
    \A k \in 1..Len(statuses) :
        statuses[k] \in Failures =>
            /\ k = Len(statuses)
            /\ fpc = "returned"
            /\ fetchRet = "None"
            /\ Len(delays) = k - 1

\* C3: a timeout after two 403s
C3_Witness ==
    /\ statuses = <<"403", "403", "timeout">>
    /\ delays = <<5, 10>>
    /\ fetchRet = "None"
    /\ fpc = "returned"

(***************************************************************************)
(* Properties of scrape_urls_to_csv.                                       *)
(***************************************************************************)
\* the first GET of a URL comes after the GETs of the URL before it in the
\* list, and at least 10 time units of sleep after the last of them
PolitenessGap ==
    (lastGet.prevUrl # 0 /\ lastGet.url # lastGet.prevUrl) =>
        /\ lastGet.url = lastGet.prevUrl + 1
        /\ lastGet.gap >= 10

\* the crawl has ended with URLs of its list never requested
StoppedEarly == pc \in {"done", "crashed"} /\ idx < Len(urls)

\* C8: the URLs are requested one at a time in list order, with at least 10
\* time units between the requests of two consecutive URLs whether the
\* earlier one was scraped or not, and no URL stops the crawl before the end
\* of the list.
C8_PoliteCrawl == PolitenessGap /\ ~StoppedEarly

\* the state part of C9
C9_SnapshotState ==
    /\ writes <= 1
    /\ writes = 1 =>
          /\ pc = "done"
          /\ idx = Len(urls) + 1
          /\ results # <<>>
          /\ snapshot = [exists |-> TRUE, rows |-> results]
    /\ (pc = "done" /\ (~urlsFile.exists \/ ReadUrls(urlsFile.lines) = <<>> \/ results = <<>>))
          => writes = 0
    /\ \E m \in [1..Len(results) -> 1..Len(urls)] :
          /\ \A a, b \in 1..Len(results) : a < b => m[a] < m[b]
          /\ \A a \in 1..Len(results) : results[a]["URL"] = PyStr(urls[m[a]])

\* the step part of C9: a row is added exactly by a successful extraction,
\* for the URL being scraped, and the snapshot changes only by the one write
C9_SnapshotStep ==
    /\ (extractOut' # extractOut /\ extractOut'.kind = "article") =>
          /\ extractOut'.a["URL"] = PyStr(urls[idx])
          /\ results' = Append(results, extractOut'.a)
    /\ results' # results => (extractOut' # extractOut /\ extractOut'.kind = "article")
    /\ (snapshot' # snapshot \/ writes' # writes) =>
          /\ writes = 0 /\ writes' = 1
          /\ idx = Len(urls) + 1
          /\ snapshot' = [exists |-> TRUE, rows |-> results]

\* C9: the snapshot is written at most once, after the whole list has been
\* processed, with one row per successfully extracted URL in list order; a
\* missing or empty URL file, or no successful extraction, writes nothing
\* and leaves an earlier snapshot as it was.
C9_BatchSnapshot == []C9_SnapshotState /\ [][C9_SnapshotStep]_vars

\* C9: a list of three URLs, the second one failed, two rows written over an
\* earlier snapshot
C9_Witness ==
    /\ pc = "done"
    /\ writes = 1
    /\ Len(urls) = 3
    /\ Len(results) = 2
    /\ results[1]["URL"] = PyStr(urls[1])
    /\ results[2]["URL"] = PyStr(urls[3])
    /\ urls[2] # urls[3]
    /\ snapshot.rows = results

(***************************************************************************)
(* Properties of extract_medium_data.                                      *)
(***************************************************************************)
CountFields == {"No. of images", "No. of external links", "Claps"}

\* a field value of its type: a str, or a non-negative int for the counts
TypeValid(k, v) ==
    IF k \in CountFields THEN v.t = "int" /\ v.v >= 0 ELSE v.t = "str"

\* C5: every field of an Article that extract returns is a value of the
\* field's type or its sentinel, never None, also when the post object lacks
\* the clap count or the author's name.
C5_NoFieldUnset ==
    extractOut.kind = "article" =>
        \A k \in ArticleFields : TypeValid(k, extractOut.a[k])

\* C6: extract raises on no page: it always returns an Article.
C6_NeverRaises == extractOut.kind # "raise"

(***************************************************************************)
(* Properties of the API.                                                  *)
(***************************************************************************)
Min(a, b) == IF a <= b THEN a ELSE b

\* C4: a search over N loaded rows with top_n = k returns min(k, N) results,
\* each a distinct row, in non-increasing order of fused score, and no row
\* left out scores strictly higher than a returned one.
C4_TopN ==
    response.kind = "results" =>
        LET rows == response.rows
            n == Len(df.claps)
            returned == {rows[a].row : a \in 1..Len(rows)}
        IN
        /\ Len(rows) = Min(request.top_n, n)
        /\ returned \subseteq 1..n
        /\ Cardinality(returned) = Len(rows)
        /\ \A a \in 1..Len(rows) :
              rows[a].score = ScoreNum(df.claps, request.sims, rows[a].row)
        /\ \A a, b \in 1..Len(rows) : a < b => rows[a].score >= rows[b].score
        /\ \A r \in (1..n) \ returned : \A a \in 1..Len(rows) :
              ScoreNum(df.claps, request.sims, r) <= rows[a].score

\* C4: the top two of three rows with three different scores, the row left
\* out being the lowest
C4_Witness ==
    /\ response.kind = "results"
    /\ Len(df.claps) = 3
    /\ request.top_n = 2
    /\ Len(response.rows) = 2
    /\ response.rows[1].score > response.rows[2].score
    /\ \E r \in 1..3 : ScoreNum(df.claps, request.sims, r) < response.rows[2].score

\* C7: every row of the loaded corpus has a non-negative integer claps,
\* whatever the snapshot held, and loading did not raise on a claps cell.
C7_ClapsNonNegative ==
    df.loaded => \A k \in 1..Len(df.claps) : df.claps[k] >= 0

\* C10: with the snapshot missing at start-up the corpus stays unloaded,
\* every search answers the error payload and leaves the index untouched,
\* and health reports data_loaded false and article_count 0; with the corpus
\* loaded, it stays loaded and no search answers the error payload.
C10_NotReady ==
    /\ (~dataFile.exists /\ apc # "startup") =>
          /\ apc # "crashed"
          /\ ~df.loaded
          /\ indexUses = 0
          /\ (apc = "responded" /\ request.top_n # 0) => response.kind = "error"
          /\ response.kind = "health" =>
                (~response.data_loaded /\ response.article_count = 0)
    /\ (dataFile.exists /\ dataFile.vocabulary /\ apc # "startup") =>
          /\ df.loaded
          /\ response.kind # "error"
          /\ (apc = "responded" /\ request.top_n # 0) => response.kind = "results"

\* C10: a search answered with the error payload, the snapshot missing
C10_Witness ==
    /\ ~dataFile.exists
    /\ apc = "responded"
    /\ request.top_n = 10
    /\ response.kind = "error"
    /\ indexUses = 0

====
